---- MODULE Spec2Model ----
(***************************************************************************)
(* The Actions library (Actions.h / Actions.cpp): a fixed-size ring buffer *)
(* of delayed callbacks, filled by runLater() and drained by loop().       *)
(*                                                                         *)
(* One Actions instance is modelled together with the two Arduino clocks   *)
(* millis() and micros().  unsigned long is scaled down to ClockBits bits; *)
(* all clock arithmetic is done modulo 2^ClockBits as the C++ does modulo  *)
(* 2^32.                                                                   *)
(*                                                                         *)
(* Fields named age and reg inside an Action, and the variables size,      *)
(* installed, op, ret, calls, overflows, dueAtEntry, streak, pending,      *)
(* dropped and lowCalls are history variables: they record what happened   *)
(* and are never read by the modelled code.                                *)
(*                                                                         *)
(* The variable low is a second Actions instance, the lowPriorityActions   *)
(* of the README; only the priority sketch uses it.                        *)
(***************************************************************************)
EXTENDS Integers, Sequences, FiniteSets, TLC

\* ---------------------------------------------------------------- bounds
ClockBits == 2                      \* width of unsigned long in the model
MaxQueue == 3                       \* largest queue size given to the constructor in SpecQueue
MaxUptime == 3                      \* SpecQueue follows the sketch up to this millis() reading
MaxNegSize == 2                     \* the constructor is tried down to -MaxNegSize
PrioritySize == 2                   \* queue size of the two instances of the priority sketch

ClockModulus == 2 ^ ClockBits
AgeCap == ClockModulus              \* true elapsed time is tracked up to one wrap
MachineSize == 1                    \* Actions machine(1) of BlinkUsingStateMachine
TestSize == 2                       \* Actions actions(2) of queueSizeTwoTest
Sizes == (0 - MaxNegSize)..MachineSize
QueueSizes == 1..MaxQueue
Delays == {0, 1, ClockModulus - 1}  \* 0, a small delay, and ULONG_MAX
ShortDelays == {0, 1}
Callables == {"dummy", "changeState"}
Handlers == <<"onOverflow", "onOverflow2">>  \* two overflow callbacks, in the order installed
TickChoices == {"none", "millis", "micros"}

VARIABLES
    size,              \* the argument the constructor was called with
    queue,             \* Action* queue: slot index -> Action
    queueSize,         \* int queueSize
    head,              \* int head
    tail,              \* int tail
    overflowCallback,  \* Callback* overflowCallback ("NULL" or a Callback)
    millis,            \* reading of millis()
    micros,            \* reading of micros()
    crashed,           \* the program trapped (null pointer store)
    installed,         \* the Callback last passed to setOverflowCallback
    op,                \* the public method that ran last
    ret,               \* what it returned: <<b>> for a bool, << >> for void
    calls,             \* the queued callbacks invoked by the last loop()
    overflows,         \* number of overflow-callback invocations in the last method
    dueAtEntry,        \* ranks of the queued actions that were due when loop() was entered
    streak,            \* runLater calls made since the queue was last empty, no loop() between
    pending,           \* actions accepted by runLater and not called yet
    dropped,           \* actions the last loop() could not put back on the queue
    low,               \* the fields of lowPriorityActions, a second instance
    lowCalls           \* the callbacks lowPriorityActions invoked in the last sketch iteration

lowVars == <<low, lowCalls>>

highVars == <<size, queue, queueSize, head, tail, overflowCallback, crashed, installed,
              op, ret, calls, overflows, dueAtEntry, streak, pending, dropped>>

vars == <<size, queue, queueSize, head, tail, overflowCallback, millis, micros,
          crashed, installed, op, ret, calls, overflows, dueAtEntry, streak,
          pending, dropped, low, lowCalls>>

\* ------------------------------------------------------------ Action
\* Action::Action(): callback = Callback(); the other fields are left
\* uninitialised and are never read before being overwritten.
EmptyAction ==
    [callback |-> "NULL", useMicros |-> FALSE, created |-> 0, delay |-> 0,
     age |-> 0, reg |-> 0]

\* Action::Action(Callback, delay, useMicros): created is stamped from the
\* clock useMicros selects.
NewAction(cb, d, um, ms, us, r) ==
    [callback |-> cb, useMicros |-> um,
     created |-> IF ~um THEN ms ELSE us,
     delay |-> d, age |-> 0, reg |-> r]

\* ------------------------------------------------------------ Actions
\* The object's fields as one record, for the methods below.
Self ==
    [queue |-> queue, queueSize |-> queueSize, head |-> head, tail |-> tail,
     overflowCallback |-> overflowCallback]

\* The constructor without size += 1.
ConstructorNoSpare(sz) ==
    [queue |-> [i \in 0..(sz - 1) |-> EmptyAction],
     queueSize |-> sz,
     head |-> 0,
     tail |-> 0,
     overflowCallback |-> "NULL"]

\* Actions::Actions(int size).  The store queueSize = 0 for size < 0 is
\* overwritten by queueSize = size after size += 1.
Constructor(sz) ==
    LET size1 == sz + 1 IN
    [queue |-> [i \in 0..(size1 - 1) |-> EmptyAction],
     queueSize |-> size1,
     head |-> 0,
     tail |-> 0,
     overflowCallback |-> "NULL"]

QUEUE_IS_EMPTY(a) == a.tail = a.head

getSize(a) ==
    IF a.head > a.tail THEN a.head - a.tail
    ELSE IF ~QUEUE_IS_EMPTY(a) THEN a.queueSize - (a.tail - a.head)
    ELSE 0

\* isFull without the queueSize <= 1 test.
isFullNoGuard(a) ==
    IF a.head = a.queueSize - 1 THEN a.tail = 0
    ELSE a.tail = a.head + 1

\* isFull without the case of head in the last slot.
isFullNoWrap(a) ==
    IF a.queueSize <= 1 THEN TRUE
    ELSE a.tail = a.head + 1

isFull(a) ==
    IF a.queueSize <= 1 THEN TRUE
    ELSE IF a.head = a.queueSize - 1 THEN a.tail = 0
    ELSE a.tail = a.head + 1

\* nextSlot without the return to slot 0 after the last slot.
nextSlotNoWrap(a, currentSlot) == currentSlot + 1

nextSlot(a, currentSlot) ==
    IF currentSlot = a.queueSize - 1 THEN 0 ELSE currentSlot + 1

\* The registration rank given to a newly queued action: one more than
\* every rank in the queue.
RECURSIVE MaxReg(_, _, _)
MaxReg(a, slot, n) ==
    IF n = 0 THEN 0
    ELSE LET rest == MaxReg(a, nextSlot(a, slot), n - 1)
         IN IF a.queue[slot].reg > rest THEN a.queue[slot].reg ELSE rest

NextReg(a) == MaxReg(a, a.tail, getSize(a)) + 1

\* runLater storing the action and moving head before it looks at isFull.
runLaterActionStoreFirst(a, action) ==
    LET b == [a EXCEPT !.queue = [i \in DOMAIN a.queue |->
                                    IF i = a.head THEN action ELSE a.queue[i]],
                       !.head = nextSlot(a, a.head)]
    IN IF ~isFull(a)
       THEN [a |-> b, ret |-> TRUE, overflows |-> 0]
       ELSE [a |-> b, ret |-> FALSE,
             overflows |-> IF a.overflowCallback # "NULL" THEN 1 ELSE 0]

\* runLater invoking the overflow callback without the NULL test.
runLaterActionNoNullTest(a, action) ==
    IF ~isFull(a)
    THEN [a |-> [a EXCEPT !.queue = [a.queue EXCEPT ![a.head] = action],
                          !.head = nextSlot(a, a.head)],
          ret |-> TRUE, overflows |-> 0]
    ELSE [a |-> a, ret |-> FALSE, overflows |-> 1]

\* bool Actions::runLater(Action action)
\* Result: the object, the return value, overflow-callback invocations.
runLaterAction(a, action) ==
    IF ~isFull(a)
    THEN [a |-> [a EXCEPT !.queue = [a.queue EXCEPT ![a.head] = action],
                          !.head = nextSlot(a, a.head)],
          ret |-> TRUE, overflows |-> 0]
    ELSE [a |-> a, ret |-> FALSE,
          overflows |-> IF a.overflowCallback # "NULL" THEN 1 ELSE 0]

\* remove handing out the front action without moving tail past it.
removeKeepsFront(a) ==
    IF ~QUEUE_IS_EMPTY(a)
    THEN [a |-> a, action |-> a.queue[a.tail], ret |-> TRUE]
    ELSE [a |-> a, action |-> EmptyAction, ret |-> FALSE]

\* bool Actions::remove(Action& action)
remove(a) ==
    IF ~QUEUE_IS_EMPTY(a)
    THEN [a |-> [a EXCEPT !.tail = nextSlot(a, a.tail)],
          action |-> a.queue[a.tail], ret |-> TRUE]
    ELSE [a |-> a, action |-> EmptyAction, ret |-> FALSE]

\* The slots from tail up to, not including, head.
RECURSIVE SlotsFrom(_, _, _)
SlotsFrom(a, slot, n) ==
    IF n = 0 THEN << >>
    ELSE <<slot>> \o SlotsFrom(a, nextSlot(a, slot), n - 1)

LiveSlots(a) == SlotsFrom(a, a.tail, getSize(a))

\* The queued actions, oldest queue position first.
Pending(a) ==
    LET slots == LiveSlots(a)
    IN [k \in DOMAIN slots |-> a.queue[slots[k]]]

LiveSet(a) ==
    LET slots == LiveSlots(a)
    IN {slots[k] : k \in DOMAIN slots}

\* ------------------------------------------------------------ clocks
\* One tick of millis() or micros(); the true age of every queued action
\* timed by that clock grows by one (recorded up to AgeCap).
TickState(c, which) ==
    IF which = "none" THEN c
    ELSE LET um == (which = "micros")
             older(x) == IF x.useMicros = um /\ x.age < AgeCap
                         THEN [x EXCEPT !.age = x.age + 1] ELSE x
         IN [c EXCEPT
               !.millis = IF um THEN c.millis ELSE (c.millis + 1) % ClockModulus,
               !.micros = IF um THEN (c.micros + 1) % ClockModulus ELSE c.micros,
               !.a.queue = [i \in DOMAIN c.a.queue |->
                              IF i \in LiveSet(c.a) THEN older(c.a.queue[i])
                              ELSE c.a.queue[i]]]

\* The comparison with >= in place of >.
IsDueAtDelay(action, now) == (now - action.created) % ClockModulus >= action.delay

\* Every action compared with millis(), whatever its useMicros.
NowMillisOnly(action, ms, us) == ms

\* The comparison made on signed numbers: no wrap of the difference.
IsDueSigned(action, now) == now - action.created > action.delay

\* The unsigned comparison now - action.created > action.delay of loop().
IsDue(action, now) == (now - action.created) % ClockModulus > action.delay

Now(action, ms, us) == IF action.useMicros THEN us ELSE ms

\* ------------------------------------------------------------ callbacks
\* What is remembered of an invocation: the callback, the action's delay,
\* true age and registration rank, whether the clock reading had wrapped
\* below action.created, and the results of the runLater calls it made.
Called(action, now, inner) ==
    [callback |-> action.callback, delay |-> action.delay, age |-> action.age,
     reg |-> action.reg, wrapped |-> now < action.created, inner |-> inner]

\* Callback::call() on a queued callback, run inside loop().
\*   dummy        does nothing                       (actions_test: dummy)
\*   changeState  calls runLater(changeState, d)     (BlinkUsingStateMachine)
\* d stands for the delay constant the sketch passes.
call(c, action, now, d) ==
    IF action.callback = "changeState"
    THEN LET r == runLaterAction(c.a,
                     NewAction("changeState", d, FALSE, c.millis, c.micros, NextReg(c.a)))
         IN [c EXCEPT !.a = r.a,
                      !.overflows = c.overflows + r.overflows,
                      !.calls = Append(c.calls, Called(action, now, <<r.ret>>))]
    ELSE IF action.callback = "dummy"
    THEN [c EXCEPT !.calls = Append(c.calls, Called(action, now, << >>))]
    ELSE c

\* ------------------------------------------------------------ loop()
\* void Actions::loop().  i is the loop counter; tk[i + 1] is the clock tick
\* (if any) that happens before iteration i reads the clock.
TickAt(tk, i) == IF (i + 1) \in DOMAIN tk THEN tk[i + 1] ELSE "none"

\* loop() without the break after the call.
RECURSIVE loopFromNoBreak(_, _, _, _)
loopFromNoBreak(c, i, tk, d) ==
    IF ~(i < getSize(c.a)) THEN c
    ELSE LET c1 == TickState(c, TickAt(tk, i))
             r == remove(c1.a)
             action == r.action
             now == Now(action, c1.millis, c1.micros)
             c2 == [c1 EXCEPT !.a = r.a]
         IN IF IsDue(action, now)
            THEN loopFromNoBreak(call(c2, action, now, d), i + 1, tk, d)
            ELSE LET back == runLaterAction(c2.a, action)
                 IN loopFromNoBreak([c2 EXCEPT !.a = back.a,
                                               !.overflows = c2.overflows + back.overflows],
                                    i + 1, tk, d)

\* loop() calling the callback while its action is still in the queue.
RECURSIVE loopFromCallFirst(_, _, _, _)
loopFromCallFirst(c, i, tk, d) ==
    IF ~(i < getSize(c.a)) THEN c
    ELSE LET c1 == TickState(c, TickAt(tk, i))
             action == c1.a.queue[c1.a.tail]
             now == Now(action, c1.millis, c1.micros)
         IN IF IsDue(action, now)
            THEN LET c2 == call(c1, action, now, d)
                 IN [c2 EXCEPT !.a = remove(c2.a).a]
            ELSE LET r == remove(c1.a)
                     back == runLaterAction(r.a, action)
                 IN loopFromCallFirst([c1 EXCEPT !.a = back.a,
                                                 !.overflows = c1.overflows + back.overflows],
                                      i + 1, tk, d)

\* loop() putting the action back on the queue after calling it.
RECURSIVE loopFromRequeue(_, _, _, _)
loopFromRequeue(c, i, tk, d) ==
    IF ~(i < getSize(c.a)) THEN c
    ELSE LET c1 == TickState(c, TickAt(tk, i))
             r == remove(c1.a)
             action == r.action
             now == Now(action, c1.millis, c1.micros)
             c2 == [c1 EXCEPT !.a = r.a]
             back == runLaterAction(c2.a, action)
             c3 == [c2 EXCEPT !.a = back.a,
                              !.overflows = c2.overflows + back.overflows]
         IN IF IsDue(action, now)
            THEN call(c3, action, now, d)
            ELSE loopFromRequeue(c3, i + 1, tk, d)

\* loop() stopping one iteration short of a full lap.
RECURSIVE loopFromShortLap(_, _, _, _)
loopFromShortLap(c, i, tk, d) ==
    IF ~(i + 1 < getSize(c.a)) THEN c
    ELSE LET c1 == TickState(c, TickAt(tk, i))
             r == remove(c1.a)
             action == r.action
             now == Now(action, c1.millis, c1.micros)
             c2 == [c1 EXCEPT !.a = r.a]
         IN IF IsDue(action, now)
            THEN call(c2, action, now, d)
            ELSE LET back == runLaterAction(c2.a, action)
                 IN loopFromShortLap([c2 EXCEPT !.a = back.a,
                                                !.overflows = c2.overflows + back.overflows],
                                     i + 1, tk, d)

\* loop() not putting back an action that is not due.
RECURSIVE loopFromNoPutBack(_, _, _, _)
loopFromNoPutBack(c, i, tk, d) ==
    IF ~(i < getSize(c.a)) THEN c
    ELSE LET c1 == TickState(c, TickAt(tk, i))
             r == remove(c1.a)
             action == r.action
             now == Now(action, c1.millis, c1.micros)
             c2 == [c1 EXCEPT !.a = r.a]
         IN IF IsDue(action, now)
            THEN call(c2, action, now, d)
            ELSE loopFromNoPutBack(c2, i + 1, tk, d)

\* The state loop() starts from; examined, bounds and dropped record the
\* scan: the rank of each action taken off the queue, the value of
\* getSize() each iteration was admitted by, and the number of put-backs
\* that runLater rejected.
LoopEntry(a, ms, us) ==
    [a |-> a, millis |-> ms, micros |-> us, calls |-> << >>, overflows |-> 0,
     examined |-> << >>, bounds |-> << >>, dropped |-> 0]

\* loop() looking at the front action only.
RECURSIVE loopFromFrontOnly(_, _, _, _)
loopFromFrontOnly(c, i, tk, d) ==
    IF ~(i < getSize(c.a) /\ i < 1) THEN c
    ELSE LET c1 == TickState(c, TickAt(tk, i))
             r == remove(c1.a)
             action == r.action
             now == Now(action, c1.millis, c1.micros)
             c2 == [c1 EXCEPT !.a = r.a,
                              !.examined = Append(c1.examined, action.reg),
                              !.bounds = Append(c1.bounds, getSize(c.a))]
         IN IF IsDue(action, now)
            THEN call(c2, action, now, d)
            ELSE LET back == runLaterAction(c2.a, action)
                 IN loopFromFrontOnly(
                        [c2 EXCEPT !.a = back.a,
                                   !.overflows = c2.overflows + back.overflows,
                                   !.dropped = c2.dropped + (IF back.ret THEN 0 ELSE 1)],
                        i + 1, tk, d)

\* loop() going on for a second lap when nothing was due in the first.
RECURSIVE loopFromTwoLaps(_, _, _, _)
loopFromTwoLaps(c, i, tk, d) ==
    IF ~(i < 2 * getSize(c.a)) THEN c
    ELSE LET c1 == TickState(c, TickAt(tk, i))
             r == remove(c1.a)
             action == r.action
             now == Now(action, c1.millis, c1.micros)
             c2 == [c1 EXCEPT !.a = r.a,
                              !.examined = Append(c1.examined, action.reg),
                              !.bounds = Append(c1.bounds, getSize(c.a))]
         IN IF IsDue(action, now)
            THEN call(c2, action, now, d)
            ELSE LET back == runLaterAction(c2.a, action)
                 IN loopFromTwoLaps(
                        [c2 EXCEPT !.a = back.a,
                                   !.overflows = c2.overflows + back.overflows,
                                   !.dropped = c2.dropped + (IF back.ret THEN 0 ELSE 1)],
                        i + 1, tk, d)

RECURSIVE loopFrom(_, _, _, _)
loopFrom(c, i, tk, d) ==
    IF ~(i < getSize(c.a)) THEN c
    ELSE LET c1 == TickState(c, TickAt(tk, i))
             r == remove(c1.a)
             action == r.action
             now == Now(action, c1.millis, c1.micros)
             c2 == [c1 EXCEPT !.a = r.a,
                              !.examined = Append(c1.examined, action.reg),
                              !.bounds = Append(c1.bounds, getSize(c.a))]
         IN IF IsDue(action, now)
            THEN call(c2, action, now, d)
            ELSE LET back == runLaterAction(c2.a, action)
                 IN loopFrom([c2 EXCEPT !.a = back.a,
                                        !.overflows = c2.overflows + back.overflows,
                                        !.dropped = c2.dropped + (IF back.ret THEN 0 ELSE 1)],
                             i + 1, tk, d)

\* ------------------------------------------------------------ history
\* Registration ranks of the queued actions are kept as 1..n in
\* registration order.  A slot outside tail..head is dead storage: no
\* method reads it before runLater has written it again, so its stale
\* Action is not kept.
Ranked(a) ==
    LET live == LiveSet(a)
        rank(i) == Cardinality({j \in live : a.queue[j].reg <= a.queue[i].reg})
    IN [a EXCEPT !.queue =
          [i \in DOMAIN a.queue |->
             IF i \in live THEN [a.queue[i] EXCEPT !.reg = rank(i)]
             ELSE EmptyAction]]


\* Registration ranks of the queued actions that are due at these clock readings.
DueRegs(a, ms, us) ==
    LET p == Pending(a)
    IN {p[k].reg : k \in {j \in 1..getSize(a) : IsDue(p[j], Now(p[j], ms, us))}}

Min(S) == CHOOSE x \in S : \A y \in S : x <= y

\* The number of runLater calls made by these invoked callbacks that were
\* accepted.
Accepted(cs) == Cardinality({i \in 1..Len(cs) : cs[i].inner = <<TRUE>>})

\* ------------------------------------------------------------ the program
InitSize(sizes) ==
    /\ size \in sizes
    /\ queue = Constructor(size).queue
    /\ queueSize = Constructor(size).queueSize
    /\ head = Constructor(size).head
    /\ tail = Constructor(size).tail
    /\ overflowCallback = Constructor(size).overflowCallback
    /\ millis = 0
    /\ micros = 0
    /\ crashed = FALSE
    /\ installed = "NULL"
    /\ op = "Actions"
    /\ ret = << >>
    /\ calls = << >>
    /\ overflows = 0
    /\ dueAtEntry = {}
    /\ streak = 0
    /\ pending = 0
    /\ dropped = 0
    /\ low = Constructor(PrioritySize)
    /\ lowCalls = << >>

\* bool Actions::runLater(FunctionCallback, unsigned long delay, bool useMicros)
RunLater(cb, d, um) ==
    /\ ~crashed
    /\ LET r == runLaterAction(Self, NewAction(cb, d, um, millis, micros, NextReg(Self)))
           a == Ranked(r.a)
       IN /\ queue' = a.queue
          /\ head' = a.head
          /\ tail' = a.tail
          /\ ret' = <<r.ret>>
          /\ overflows' = r.overflows
          /\ pending' = pending + (IF r.ret THEN 1 ELSE 0)
    /\ op' = "runLater"
    /\ dropped' = 0
    /\ calls' = << >>
    /\ dueAtEntry' = {}
    /\ streak' = IF streak < 0 \/ streak > size THEN 0 - 1 ELSE streak + 1
    /\ UNCHANGED <<size, queueSize, overflowCallback, millis, micros, crashed, installed>>

\* void Actions::loop(), called from the sketch; tk are the clock ticks that
\* happen while it runs, d the delay a changeState callback passes on.
Loop(tk, d) ==
    /\ ~crashed
    /\ \E c \in {loopFrom(LoopEntry(Self, millis, micros), 0, tk, d)} :
       \E a \in {Ranked(c.a)} :
          /\ queue' = a.queue
          /\ head' = a.head
          /\ tail' = a.tail
          /\ millis' = c.millis
          /\ micros' = c.micros
          /\ calls' = c.calls
          /\ overflows' = c.overflows
          /\ streak' = IF QUEUE_IS_EMPTY(a) THEN 0 ELSE 0 - 1
          /\ pending' = pending - Len(c.calls) + Accepted(c.calls)
          /\ dropped' = c.dropped
    /\ op' = "loop"
    /\ ret' = << >>
    /\ dueAtEntry' = DueRegs(Self, millis, micros)
    /\ UNCHANGED <<size, queueSize, overflowCallback, crashed, installed>>

\* void Actions::setOverflowCallback(FunctionCallback): the Callback is
\* stored through overflowCallback.  While that pointer is NULL the store
\* is undefined: either the program traps, or the store lands outside the
\* object and leaves every field, the pointer included, as it was.
SetOverflowCallback(h) ==
    /\ ~crashed
    /\ installed' = h
    /\ op' = "setOverflowCallback"
    /\ ret' = << >>
    /\ calls' = << >>
    /\ overflows' = 0
    /\ dueAtEntry' = {}
    /\ IF overflowCallback = "NULL"
       THEN /\ crashed' \in BOOLEAN
            /\ UNCHANGED overflowCallback
       ELSE /\ overflowCallback' = h
            /\ UNCHANGED crashed
    /\ dropped' = 0
    /\ UNCHANGED <<size, queue, queueSize, head, tail, millis, micros, streak, pending>>

\* millis() or micros() advances by one between two calls of the sketch.
Tick(which) ==
    /\ ~crashed
    /\ LET c == TickState([a |-> Self, millis |-> millis, micros |-> micros], which)
       IN /\ queue' = c.a.queue
          /\ millis' = c.millis
          /\ micros' = c.micros
    /\ op' = "tick"
    /\ ret' = << >>
    /\ calls' = << >>
    /\ overflows' = 0
    /\ dueAtEntry' = {}
    /\ dropped' = 0
    /\ UNCHANGED <<size, queueSize, head, tail, overflowCallback, crashed, installed, streak,
                   pending>>

\* The state machine sketch: one queue of size MachineSize (or of a size
\* that leaves no room), every action timed by millis().
Init == InitSize(Sizes)

Next ==
    \/ (\E cb \in Callables, d \in Delays : RunLater(cb, d, FALSE)) /\ UNCHANGED lowVars
    \/ (\E tk \in [1..getSize(Self) -> {"none", "millis"}], d \in Delays : Loop(tk, d))
          /\ UNCHANGED lowVars
    \/ SetOverflowCallback("onOverflow") /\ UNCHANGED lowVars
    \/ Tick("millis") /\ UNCHANGED lowVars

Spec == Init /\ [][Next]_vars

\* A sketch whose dummy actions are timed by millis() or by micros().
NextClocks ==
    \/ (\E d \in Delays, um \in BOOLEAN : RunLater("dummy", d, um)) /\ UNCHANGED lowVars
    \/ (\E tk \in [1..getSize(Self) -> TickChoices] : Loop(tk, 0)) /\ UNCHANGED lowVars
    \/ (\E which \in {"millis", "micros"} : Tick(which)) /\ UNCHANGED lowVars

SpecClocks == Init /\ [][NextClocks]_vars

\* A sketch with a longer queue of dummy actions timed by millis(),
\* followed for its first MaxUptime milliseconds.
InitQueue == InitSize(QueueSizes)

NextQueue ==
    \/ (\E d \in ShortDelays : RunLater("dummy", d, FALSE)) /\ UNCHANGED lowVars
    \/ Loop(<< >>, 0) /\ UNCHANGED lowVars
    \/ Tick("millis") /\ millis' <= MaxUptime /\ millis' >= millis /\ UNCHANGED lowVars

SpecQueue == InitQueue /\ [][NextQueue]_vars

\* A sketch that installs one overflow callback and later a second one in
\* its place.
NextOverflow ==
    \/ (\E d \in ShortDelays : RunLater("dummy", d, FALSE)) /\ UNCHANGED lowVars
    \/ Loop(<< >>, 0) /\ UNCHANGED lowVars
    \/ installed = "NULL" /\ SetOverflowCallback(Handlers[1]) /\ UNCHANGED lowVars
    \/ installed = Handlers[1] /\ SetOverflowCallback(Handlers[2]) /\ UNCHANGED lowVars
    \/ Tick("millis") /\ UNCHANGED lowVars

SpecOverflow == Init /\ [][NextOverflow]_vars

\* The priority sketch of the README: highPriorityActions is the instance
\* of the variables queue, head, tail, ...; lowPriorityActions is low.
InitPriority == InitSize({PrioritySize})

\* lowPriorityActions.runLater(dummy, d)
LowRunLater(d) ==
    /\ ~crashed
    /\ low' = Ranked(runLaterAction(low,
                  NewAction("dummy", d, FALSE, millis, micros, NextReg(low))).a)
    /\ lowCalls' = << >>
    /\ UNCHANGED <<highVars, millis, micros>>

\* One iteration of the sketch's loop():
\*     if (!highPriorityActions.loop()) { lowPriorityActions.loop(); }
\* Actions::loop() is void, so the condition has no value that depends on
\* what highPriorityActions.loop() did: whether lowPriorityActions.loop()
\* runs is pollLow, either way.
PriorityLoop(pollLow) ==
    /\ Loop(<< >>, 0)
    /\ IF pollLow
       THEN LET c == loopFrom(LoopEntry(low, millis, micros), 0, << >>, 0)
            IN /\ low' = Ranked(c.a)
               /\ lowCalls' = c.calls
       ELSE /\ lowCalls' = << >>
            /\ UNCHANGED low

\* millis() advances between two iterations; the actions of both queues age.
PriorityTick ==
    /\ Tick("millis")
    /\ millis' <= MaxUptime /\ millis' >= millis
    /\ low' = TickState([a |-> low, millis |-> millis, micros |-> micros], "millis").a
    /\ lowCalls' = << >>

NextPriority ==
    \/ RunLater("dummy", 0, FALSE) /\ UNCHANGED lowVars
    \/ LowRunLater(0)
    \/ \E pollLow \in BOOLEAN : PriorityLoop(pollLow)
    \/ PriorityTick

SpecPriority == InitPriority /\ [][NextPriority]_vars

\* A sketch with a queue of two dummy actions, some timed by millis() and
\* some by micros(), followed while both clocks read at most MaxUptime.
InitMixed == InitSize({TestSize})

NextMixed ==
    \/ (\E d \in ShortDelays, um \in BOOLEAN : RunLater("dummy", d, um))
          /\ UNCHANGED lowVars
    \/ Loop(<< >>, 0) /\ UNCHANGED lowVars
    \/ (\E which \in {"millis", "micros"} : Tick(which))
          /\ millis' <= MaxUptime /\ millis' >= millis
          /\ micros' <= MaxUptime /\ micros' >= micros
          /\ UNCHANGED lowVars

SpecMixed == InitMixed /\ [][NextMixed]_vars

\* The sketch of the README's key functions: one queue of size MachineSize
\* with dummy actions of any delay; the sketch's loop() calls
\* actions.loop() again and again, and millis() keeps counting.
InitLive == InitSize({MachineSize})

NextLive ==
    \/ (\E d \in Delays : RunLater("dummy", d, FALSE)) /\ UNCHANGED lowVars
    \/ Loop(<< >>, 0) /\ UNCHANGED lowVars
    \/ Tick("millis") /\ UNCHANGED lowVars

SpecLive ==
    /\ InitLive
    /\ [][NextLive]_vars
    /\ WF_vars(Loop(<< >>, 0) /\ UNCHANGED lowVars)
    /\ WF_vars(Tick("millis") /\ UNCHANGED lowVars)

\* ------------------------------------------------------------ properties

\* C1: a loop() call invokes at most one queued callback, however many
\* queued actions are due when it is entered.
C1_AtMostOneCallPerLoop == Len(calls) <= 1

\* Three actions were due on entry, one was called, two are still queued.
C1_Witness ==
    /\ op = "loop"
    /\ Cardinality(dueAtEntry) >= 3
    /\ Len(calls) = 1
    /\ getSize(Self) >= 2

\* C2: when loop() calls a callback while two or more queued actions are
\* due, the action called is the earliest registered of the due ones.
C2_OldestDueFirst ==
    (op = "loop" /\ Len(calls) >= 1 /\ Cardinality(dueAtEntry) >= 2)
        => calls[1].reg = Min(dueAtEntry)

\* C3: starting from an empty queue of size k > 0 and with no loop() in
\* between, the first k runLater calls return true and call k + 1 false.
C3_ExactlySizeCallsSucceed ==
    (op = "runLater" /\ size > 0 /\ streak >= 1) => ret = <<streak <= size>>

\* Call MaxQueue + 1 on a queue of size MaxQueue was rejected.
C3_Witness ==
    /\ op = "runLater"
    /\ size = MaxQueue
    /\ streak = size + 1
    /\ ret = <<FALSE>>

\* C4: with a size <= 0 given to the constructor every runLater returns
\* false and no action is ever queued.
C4_NoRoomWithoutSize ==
    size <= 0 => /\ (op = "runLater" => ret = <<FALSE>>)
                 /\ getSize(Self) = 0
                 /\ QUEUE_IS_EMPTY(Self)
                 /\ \A i \in DOMAIN queue : queue[i] = EmptyAction

\* runLater was rejected on a queue constructed with a negative size.
C4_Witness ==
    /\ size < 0
    /\ op = "runLater"
    /\ ret = <<FALSE>>

\* C5: once setOverflowCallback(h) has been called, a rejected runLater
\* invokes h exactly once before returning false, and an accepted runLater
\* does not invoke it.
C5_OverflowCallbackInvoked ==
    (installed # "NULL" /\ op = "runLater")
        => /\ (ret = <<FALSE>> => overflows = 1)
           /\ (ret = <<TRUE>> => overflows = 0)

\* C6: loop() returns true exactly when it invoked a callback.
C6_LoopReturnsWhetherCalled ==
    op = "loop" => ret = <<Len(calls) > 0>>

\* C7: a callback is invoked only after strictly more than its action's
\* delay has truly elapsed on the action's clock since registration.
C7_NoEarlierThanDelay ==
    \A i \in 1..Len(calls) : calls[i].age > calls[i].delay

\* A callback invoked after the clock wrapped below action.created.
C7_Witness ==
    /\ op = "loop"
    /\ Len(calls) = 1
    /\ calls[1].wrapped
    /\ calls[1].delay > 0

\* C8: a runLater made by the running callback on its own queue succeeds,
\* and the action it registers is still queued, uncalled, when that loop()
\* returns.
C8_ReentrantRunLater ==
    (op = "loop" /\ Len(calls) >= 1 /\ calls[1].callback = "changeState")
        => /\ calls[1].inner = <<TRUE>>
           /\ Len(calls) = 1
           /\ calls[1].age > 0
           /\ getSize(Self) >= 1
           /\ LET newest == Pending(Self)[getSize(Self)]
              IN /\ newest.callback = "changeState"
                 /\ newest.age = 0
                 /\ newest.reg = getSize(Self)
                 /\ newest.created = millis

\* The only action of a size one queue rescheduled itself.
C8_Witness ==
    /\ size = 1
    /\ op = "loop"
    /\ Len(calls) = 1
    /\ calls[1].callback = "changeState"
    /\ calls[1].inner = <<TRUE>>
    /\ isFull(Self)

\* C9: a loop() that calls a callback which schedules nothing lowers the
\* number of queued actions by one (from a full queue: to size - 1, no
\* longer full); a loop() that calls nothing leaves it as it was; and
\* runLater succeeds exactly when fewer than size actions are queued,
\* adding one.
C9_Step ==
    /\ (op' = "loop" /\ calls' = << >>) => getSize(Self)' = getSize(Self)
    /\ (op' = "loop" /\ Len(calls') = 1 /\ calls'[1].inner = << >>)
          => /\ getSize(Self)' = getSize(Self) - 1
             /\ isFull(Self) => (~isFull(Self)' /\ getSize(Self)' = size - 1)
    /\ op' = "runLater"
          => /\ ret' = <<getSize(Self) < size>>
             /\ getSize(Self)' = getSize(Self) + (IF ret' = <<TRUE>> THEN 1 ELSE 0)

C9_DispatchFreesOneSlot == [][C9_Step]_vars

\* A dummy action was called from a full queue of size MaxQueue.
C9_Witness ==
    /\ op = "loop"
    /\ Len(calls) = 1
    /\ calls[1].inner = << >>
    /\ size = MaxQueue
    /\ getSize(Self) = size - 1

\* C10: a runLater that returns false leaves the queued actions, head and
\* tail as they were.
C10_Step ==
    (op' = "runLater" /\ ret' = <<FALSE>>)
        => /\ Pending(Self)' = Pending(Self)
           /\ head' = head
           /\ tail' = tail
           /\ queue' = queue

C10_RejectedRunLaterChangesNothing == [][C10_Step]_vars

\* runLater was rejected on a full queue of two or more actions.
C10_Witness ==
    /\ op = "runLater"
    /\ ret = <<FALSE>>
    /\ getSize(Self) >= 2
    /\ isFull(Self)

\* C11: the number of actions accepted and not yet called never exceeds
\* the size given to the constructor (none at all for a size <= 0),
\* runLater calls made by a running callback included, and it is the
\* number getSize() reports; the queue has size + 1 slots.
C11_AtMostSizePending ==
    /\ pending <= (IF size > 0 THEN size ELSE 0)
    /\ pending = getSize(Self)
    /\ size >= 0 => Cardinality(DOMAIN queue) = size + 1

\* The queue is filled to its size by the runLater of a running callback.
C11_Witness ==
    /\ op = "loop"
    /\ Len(calls) = 1
    /\ calls[1].inner = <<TRUE>>
    /\ size > 0
    /\ pending = size
    /\ Cardinality(DOMAIN queue) = size + 1

\* The queued actions without the history field age: what the code holds.
Stored(a) ==
    LET p == Pending(a)
    IN [k \in DOMAIN p |-> [p[k] EXCEPT !.age = 0]]

\* C12: a loop() entered when no queued action is due (an empty queue
\* included) invokes no callback and leaves the queued actions as they
\* were: the same actions in the same order from the front, each with its
\* created, delay and useMicros.
C12_Step ==
    (op' = "loop" /\ dueAtEntry' = {})
        => /\ calls' = << >>
           /\ overflows' = 0
           /\ Stored(Self)' = Stored(Self)

C12_IdleLoopKeepsQueue == [][C12_Step]_vars

\* loop() went once round a queue of three actions, none of them due, and
\* the ring has moved on.
C12_Witness ==
    /\ op = "loop"
    /\ calls = << >>
    /\ getSize(Self) = 3
    /\ tail # 0
    /\ \E k \in 1..3 : Pending(Self)[k].delay # Pending(Self)[1].delay

\* C13: loop() calls a callback exactly when some queued action has truly
\* waited longer than its delay, and the action it calls is such a one; an
\* action that has waited exactly its delay is not called, so a delay 0
\* action is not called at the clock reading it was registered at.
C13_Step ==
    op' = "loop"
        => LET p == Pending(Self)
           IN /\ (calls' # << >>) <=> (\E k \in DOMAIN p : p[k].age > p[k].delay)
              /\ \A i \in 1..Len(calls') : calls'[i].age > calls'[i].delay
              /\ (\A k \in DOMAIN p : p[k].age = p[k].delay)
                    => /\ calls' = << >>
                       /\ getSize(Self)' = getSize(Self)

C13_StrictlyAfterDelay == [][C13_Step]_vars

\* loop() ran at the clock reading a delay 0 action was registered at and
\* called nothing.
C13_Witness ==
    /\ op = "loop"
    /\ calls = << >>
    /\ getSize(Self) = 1
    /\ Pending(Self)[1].delay = 0
    /\ Pending(Self)[1].age = 0
    /\ Pending(Self)[1].created = millis

\* Slot j lies between tail and head: it holds a queued action.
IsLive(a, j) ==
    IF a.head >= a.tail THEN a.tail <= j /\ j < a.head
    ELSE j >= a.tail \/ j < a.head

\* A queued action as registration rank and the fields the code stores.
Entry(x) == <<x.reg, x.callback, x.useMicros, x.created, x.delay>>

\* The queued actions as such tuples.
Registered(a) ==
    {Entry(a.queue[j]) : j \in {i \in DOMAIN a.queue : IsLive(a, i)}}

\* The pairs of R without rank r, the later ranks moved down by one.
Without(R, r) ==
    {<<IF q[1] > r THEN q[1] - 1 ELSE q[1], q[2], q[3], q[4], q[5]>> :
        q \in {x \in R : x[1] # r}}

\* C14: the action loop() calls was queued, is called once, and is no
\* longer queued afterwards: what stays queued is every other action, plus
\* the one the callback may have registered; a loop() on an empty queue
\* calls nothing.
C14_Step ==
    /\ (op' = "loop" /\ calls' # << >>)
          => LET before == Registered(Self)
             IN /\ Len(calls') = 1
                /\ \E q \in before :
                      /\ q[1] = calls'[1].reg
                      /\ q[2] = calls'[1].callback
                      /\ q[5] = calls'[1].delay
                /\ getSize(Self)' = getSize(Self) - 1 + Accepted(calls')
                /\ {q \in Registered(Self)' : q[1] < getSize(Self)} =
                      Without(before, calls'[1].reg)
    /\ (op' = "loop" /\ getSize(Self) = 0) => calls' = << >>

C14_CalledActionIsDiscarded == [][C14_Step]_vars

\* The middle one of three queued actions was called; the other two stay.
C14_Witness ==
    /\ op = "loop"
    /\ Len(calls) = 1
    /\ calls[1].reg = 2
    /\ getSize(Self) = 2

\* C15: whatever method runs, every queued action that is not called by
\* it stays queued with the callback, useMicros, created and delay it
\* was registered with, and the only other queued actions afterwards are
\* those accepted by a runLater during the step.
C15_Step ==
    /\ op' = "loop"
          => LET before == Registered(Self)
                 after == Registered(Self)'
                 kept == IF calls' = << >> THEN before
                         ELSE Without(before, calls'[1].reg)
             IN /\ kept \subseteq after
                /\ Cardinality(after) = Cardinality(kept) + Accepted(calls')
                /\ Cardinality(after) = getSize(Self)'
    /\ op' = "runLater"
          => LET before == Registered(Self)
                 after == Registered(Self)'
             IN /\ before \subseteq after
                /\ Cardinality(after) =
                      Cardinality(before) + (IF ret' = <<TRUE>> THEN 1 ELSE 0)
                /\ Cardinality(after) = getSize(Self)'
    /\ op' \notin {"loop", "runLater"}
          => Registered(Self)' = Registered(Self)

C15_QueuedUntilCalled == [][C15_Step]_vars

\* loop() called one action and put two back, of which the older one is now
\* behind the younger one.
C15_Witness ==
    /\ op = "loop"
    /\ Len(calls) = 1
    /\ getSize(Self) = 2
    /\ Pending(Self)[1].reg = 2
    /\ Pending(Self)[2].reg = 1

\* C16: for a queued action whose true waiting time t is below
\* 2^ClockBits, the comparison loop() makes on the wrapping clock says due
\* exactly when t > delay, also when the clock reading has wrapped below
\* action.created.
C16_DueTestSurvivesWrap ==
    \A k \in 1..getSize(Self) :
        LET action == Pending(Self)[k]
        IN action.age < ClockModulus
              => (IsDue(action, Now(action, millis, micros)) <=> action.age > action.delay)

\* An action timed by micros() is due although micros() has wrapped below
\* its created.
C16_Witness ==
    \E j \in 1..getSize(Self) :
        /\ Pending(Self)[j].useMicros
        /\ micros < Pending(Self)[j].created
        /\ Pending(Self)[j].age < ClockModulus
        /\ Pending(Self)[j].delay > 0
        /\ IsDue(Pending(Self)[j], micros)

\* C17: the queued actions stand in registration order, the earliest
\* registered one at the front where loop() starts.
C17_FrontIsEarliest ==
    \A k \in 1..getSize(Self) : Pending(Self)[k].reg = k

\* C18: after setOverflowCallback(h1) and then setOverflowCallback(h2) a
\* rejected runLater invokes the overflow callback once, and the callback
\* it invokes is h2.
C18_SecondHandlerInvoked ==
    (installed = Handlers[2] /\ op = "runLater" /\ ret = <<FALSE>>)
        => (overflows = 1 /\ overflowCallback = Handlers[2])

\* C19: while setOverflowCallback has never been called, a rejected
\* runLater invokes no callback, changes nothing and returns false.
C19_Step ==
    (installed = "NULL" /\ op' = "runLater" /\ ret' # <<TRUE>>)
        => /\ ret' = <<FALSE>>
           /\ overflows' = 0
           /\ calls' = << >>
           /\ overflowCallback = "NULL"
           /\ ~crashed'
           /\ queue' = queue /\ head' = head /\ tail' = tail

C19_NoHandlerByDefault == [][C19_Step]_vars

\* runLater was rejected on a full queue of size MachineSize with no
\* overflow callback ever set.
C19_Witness ==
    /\ installed = "NULL"
    /\ op = "runLater"
    /\ ret = <<FALSE>>
    /\ size = MachineSize
    /\ isFull(Self)
    /\ overflows = 0

\* C20: in an iteration of the priority sketch lowPriorityActions calls a
\* callback only if highPriorityActions.loop() called none.
C20_LowOnlyWhenHighIdle ==
    (op = "loop" /\ lowCalls # << >>) => calls = << >>

\* C21: with the clocks standing still during the call, loop() invokes a
\* callback exactly when at least one action queued at its start is due,
\* wherever in the queue that action stands, and the action it calls is
\* one of those.
C21_Step ==
    op' = "loop"
        => /\ (calls' # << >>) <=> (dueAtEntry' # {})
           /\ \A i \in 1..Len(calls') : calls'[i].reg \in dueAtEntry'
           /\ dueAtEntry' # {} => getSize(Self)' < getSize(Self)

C21_CallsWheneverDue == [][C21_Step]_vars

\* The only due action was the last of three in the queue, and was called.
C21_Witness ==
    /\ op = "loop"
    /\ dueAtEntry = {3}
    /\ Len(calls) = 1
    /\ calls[1].reg = 3
    /\ getSize(Self) = 2

\* C22: within one loop() no queued action is taken off the queue twice;
\* when nothing is called every action queued at the start is taken off
\* exactly once; and every iteration is admitted by a getSize() equal to the
\* number of actions queued at the start, the put-backs notwithstanding.
C22_Step ==
    op' = "loop"
        => LET c == loopFrom(LoopEntry(Self, millis, micros), 0, << >>, 0)
               n == getSize(Self)
           IN /\ calls' = c.calls
              /\ Len(c.examined) <= n
              /\ \A i, j \in DOMAIN c.examined :
                     i # j => c.examined[i] # c.examined[j]
              /\ c.calls = << >>
                    => /\ Len(c.examined) = n
                       /\ {c.examined[i] : i \in DOMAIN c.examined} = 1..n
              /\ \A i \in DOMAIN c.bounds : c.bounds[i] = n

C22_SingleLap == [][C22_Step]_vars

\* loop() went round a queue of two actions without calling one, the ring
\* indices wrapping past the last slot.
C22_Witness ==
    /\ op = "loop"
    /\ calls = << >>
    /\ getSize(Self) = 2
    /\ head < tail

\* C23: a queued action's created is the reading its own clock (micros()
\* if useMicros, else millis()) had when it was registered, and loop()
\* calls a callback exactly when some queued action has waited longer than
\* its delay by its own clock; the other clock's reading plays no part.
C23_Step ==
    LET p == Pending(Self)
    IN /\ \A k \in DOMAIN p :
             p[k].created =
                (Now(p[k], millis, micros) - p[k].age + ClockModulus) % ClockModulus
       /\ op' = "loop"
             => /\ (calls' # << >>) <=> (\E k \in DOMAIN p : p[k].age > p[k].delay)
                /\ \A k \in DOMAIN p :
                      (calls' # << >> /\ calls'[1].reg = p[k].reg)
                          => IsDue(p[k], IF p[k].useMicros THEN micros ELSE millis)

C23_OwnClockDecides == [][C23_Step]_vars

\* loop() called one of two actions and left a millis() timed one queued
\* that has not waited out its delay, though the reading of micros() is
\* far enough past its created.
C23_Witness ==
    /\ op = "loop"
    /\ Len(calls) = 1
    /\ getSize(Self) = 1
    /\ ~Pending(Self)[1].useMicros
    /\ Pending(Self)[1].age <= Pending(Self)[1].delay
    /\ micros > Pending(Self)[1].created + Pending(Self)[1].delay

\* C24: with loop() called again and again and the clock counting on,
\* an action accepted by runLater is eventually called, whatever its delay.
C24_EventuallyCalled == (pending > 0) ~> (pending = 0)

\* C25: a queued action that is due at one clock reading is still due
\* after the next tick of the clocks, as long as it has not been called.
C25_Step ==
    op' = "tick"
        => \A k \in 1..getSize(Self) :
              IsDue(Pending(Self)[k], Now(Pending(Self)[k], millis, micros))
                 => IsDue(Pending(Self)[k], Now(Pending(Self)[k], millis', micros'))

C25_DueStaysDue == [][C25_Step]_vars

\* C26: loop() always gets an action that is not due back on the queue: it
\* drops none, and the overflow callback is invoked within loop() only for
\* a runLater of the callback it called.
C26_PutBackSucceeds ==
    /\ dropped = 0
    /\ op = "loop"
          => /\ overflows <= Cardinality({i \in 1..Len(calls) : calls[i].inner = <<FALSE>>})
             /\ pending = getSize(Self)

\* loop() took the only action off a full queue, found it not due and put
\* it back.
C26_Witness ==
    /\ op = "loop"
    /\ calls = << >>
    /\ dropped = 0
    /\ size = MachineSize
    /\ isFull(Self)
    /\ Pending(Self)[1].age <= Pending(Self)[1].delay

\* C27: the constructor never stores a negative queueSize (the number of
\* slots it asks new for), and a size <= 0 leaves the object as size 0
\* does: same queueSize, head and tail.
C27_ClampedConstruction ==
    /\ queueSize >= 0
    /\ size <= 0 => /\ queueSize = Constructor(0).queueSize
                    /\ head = Constructor(0).head
                    /\ tail = Constructor(0).tail

\* C28: for a size N > 0 head and tail stay within the N + 1 slots,
\* getSize() is (head - tail) mod (N + 1) and the number of actions accepted
\* and not yet called, the queue is empty exactly when getSize() is 0 and
\* full exactly when it is N, and the slots from tail up to head, going
\* round, are those that hold the queued actions.
C28_RingConsistent ==
    size > 0
        => /\ queueSize = size + 1
           /\ DOMAIN queue = 0..size
           /\ head \in 0..size
           /\ tail \in 0..size
           /\ getSize(Self) = (head - tail + queueSize) % queueSize
           /\ getSize(Self) = pending
           /\ QUEUE_IS_EMPTY(Self) <=> getSize(Self) = 0
           /\ isFull(Self) <=> getSize(Self) = size
           /\ \A k \in 1..pending :
                 /\ LiveSlots(Self)[k] = (tail + k - 1) % queueSize
                 /\ queue[(tail + k - 1) % queueSize].callback # "NULL"
           /\ \A j \in 0..size :
                 queue[j].callback # "NULL" => \E k \in 1..pending : j = (tail + k - 1) % queueSize

\* A full queue of size MaxQueue whose actions lie across the end of the
\* ring.
C28_Witness ==
    /\ size = MaxQueue
    /\ isFull(Self)
    /\ head < tail
    /\ tail < size
    /\ pending = size

====
